---- MODULE Spec2Model ----
(***************************************************************************)
(* Model of update_sponsors.py: the README region writer (ReadmeUpdater),  *)
(* the paginated, retrying fetcher (AfdianAPIClient), the join/render      *)
(* pipeline (SponsorDataProcessor) and the run as a whole (main).          *)
(*                                                                         *)
(* Text is modelled as a sequence of lexemes.  Each occurrence of one of   *)
(* the two marker strings is one lexeme (MARKER_START, MARKER_END); "n" is *)
(* a newline (the whitespace str.rstrip removes) and "x" is any other      *)
(* character.                                                              *)
(***************************************************************************)
EXTENDS Integers, Sequences, FiniteSets, TLC

VARIABLES
    file,        \* README.md: [exists, text]
    log,         \* one record per ReadmeUpdater.update call: content, file before, file after
    pc,          \* control point of fetch_all_pages / _fetch_page / _post_with_retry
    page,        \* fetch_all_pages: page
    attempt,     \* _post_with_retry: attempt
    all_items,   \* fetch_all_pages: all_items
    payload,     \* _fetch_page: payload built once per page: [page, ts, sign]
    clock,       \* int(time.time())
    posts,       \* the POSTs sent for the current page: [attempt, ts, sign, sent_at, ok]
    waits,       \* the time.sleep(wait) calls for the current page: [attempt, det, jitter] in ms
    errors,      \* logger.error lines of _fetch_page: [page, kind]
    received,    \* per accepted page, what the server returned: [items, total]
    last_resp,   \* the server's answer to the latest POST
    outcome,     \* how fetch_all_pages ended: "running", "returned", "raised"
    fetched,     \* the page numbers _fetch_page was called with, in order
    n_posts,     \* the number of POSTs sent since fetch_all_pages started
    sponsors,    \* SponsorDataProcessor.sponsors
    orders,      \* SponsorDataProcessor.orders
    user_map,    \* SponsorDataProcessor.user_map
    rows,        \* table rows appended by generate_markdown
    items,       \* sponsors_list of generate_json_data
    step,        \* position in the processing pipeline of main
    mpc,         \* main: the statement it is at
    env,         \* config.USER_ID and config.TOKEN: [user_id, token]
    reqs,        \* main: the pages requested from the server so far (one POST at least each)
    m_sponsors,  \* main: sponsors
    m_orders,    \* main: orders
    fetches,     \* main: the calls of fetch_all_pages made: [api, outcome, items, first]
    json,        \* sponsor.json: [exists, total_count]
    written,     \* the artifacts this run has written, in order
    logged       \* the logger.error lines of main, in order

readmeVars == <<file, log>>
fetchVars == <<pc, page, attempt, all_items, payload, clock, posts, waits, errors,
               received, last_resp, outcome, fetched, n_posts>>
procVars == <<sponsors, orders, user_map, rows, items, step>>
mainVars == <<mpc, env, reqs, m_sponsors, m_orders, fetches, json, written, logged>>
vars == <<readmeVars, fetchVars, procVars, mainVars>>

(***************************************************************************)
(* Bounds of the model.                                                    *)
(***************************************************************************)
MaxFileLen == 3
MaxCalls == 2

RECURSIVE SeqsUpTo(_, _)
SeqsUpTo(S, n) ==
    IF n = 0 THEN {<<>>}
    ELSE LET shorter == SeqsUpTo(S, n - 1)
         IN  shorter \cup {Append(s, x) : s \in {t \in shorter : Len(t) = n - 1}, x \in S}

(***************************************************************************)
(* ReadmeUpdater                                                           *)
(***************************************************************************)
MARKER_START == "S"
MARKER_END == "E"
Alphabet == {MARKER_START, MARKER_END, "x", "n"}
Whitespace == {"n"}

\* `sep in text`
Contains(text, sep) == \E i \in 1..Len(text) : text[i] = sep

\* index of the first occurrence of sep in text at or after position from; 0 if none
FirstIndex(text, sep, from) ==
    IF \E i \in from..Len(text) : text[i] = sep
    THEN CHOOSE i \in from..Len(text) :
            text[i] = sep /\ \A j \in from..(i - 1) : text[j] # sep
    ELSE 0

\* text.split(sep): the pieces between the occurrences of sep, left to right
RECURSIVE Split(_, _)
Split(text, sep) ==
    LET i == FirstIndex(text, sep, 1)
    IN  IF i = 0 THEN <<text>>
        ELSE <<SubSeq(text, 1, i - 1)>> \o Split(SubSeq(text, i + 1, Len(text)), sep)

\* text.rstrip()
RECURSIVE RStrip(_)
RStrip(text) ==
    IF text # <<>> /\ text[Len(text)] \in Whitespace
    THEN RStrip(SubSeq(text, 1, Len(text) - 1))
    ELSE text

\* f"{MARKER_START}\n{content}\n{MARKER_END}"
NewBlock(content) == <<MARKER_START, "n">> \o content \o <<"n", MARKER_END>>

CreateNewFile(content) == NewBlock(content) \o <<"n">>

\* an append that does not trim the existing text
AppendMarkersNoStrip(text, content) == text \o <<"n", "n">> \o NewBlock(content) \o <<"n">>

AppendMarkers(text, content) == RStrip(text) \o <<"n", "n">> \o NewBlock(content) \o <<"n">>

ReplaceContent(text, content) ==
    LET before == Split(text, MARKER_START)[1]
        after == Split(text, MARKER_END)[2]
    IN  before \o NewBlock(content) \o after

\* the text ReadmeUpdater.update leaves in the file
UpdatedText(f, content) ==
    IF ~f.exists THEN CreateNewFile(content)
    ELSE IF ~Contains(f.text, MARKER_START) \/ ~Contains(f.text, MARKER_END)
         THEN AppendMarkers(f.text, content)
         ELSE ReplaceContent(f.text, content)

\* the contents update is called with: empty, plain text, text ending in a
\* newline, and text that itself holds a marker
Contents == {<<>>, <<"x">>, <<"x", "n">>, <<MARKER_START>>, <<MARKER_END>>}

Update(content) ==
    /\ Len(log) < MaxCalls
    /\ file' = [exists |-> TRUE, text |-> UpdatedText(file, content)]
    /\ log' = Append(log, [content |-> content, before |-> file, after |-> file'])
    /\ UNCHANGED <<fetchVars, procVars, mainVars>>


(***************************************************************************)
(* Loosely typed JSON values: None, an integer or a string.                *)
(***************************************************************************)
PyNone == [t |-> "none", i |-> 0, s |-> ""]
PyInt(n) == [t |-> "int", i |-> n, s |-> ""]
PyStr(x) == [t |-> "str", i |-> 0, s |-> x]

\* Python truthiness: None, 0 and "" are falsy
Truthy(v) == CASE v.t = "none" -> FALSE
               [] v.t = "int" -> v.i # 0
               [] OTHER -> v.s # ""

\* a or b
PyOr(a, b) == IF Truthy(a) THEN a ELSE b

(***************************************************************************)
(* AfdianAPIClient                                                         *)
(***************************************************************************)
MAX_RETRIES == 3
PAGE_SIZE == 50
BACKOFF_BASE_NUM == 8      \* BACKOFF_BASE = 0.8 = 8 / 10
BACKOFF_BASE_DEN == 10

\* Bounds of the model.  MaxPagesModel stands for Config.MAX_PAGES (2000 in
\* the source), scaled down so that the page cap is reached.
MaxPagesModel == 3
MaxItems == 1
MaxClock == 1

MAX_PAGES == MaxPagesModel

USER_ID == "uid"
TOKEN == "token"

\* json.dumps({"page": page, "per_page": per_page}, separators=(",", ":"))
ParamsStr(p, per_page) == <<"page", p, "per_page", per_page>>

\* _make_sign: the MD5 digest, represented by the string it digests
MakeSign(params_str, t) == <<TOKEN, "params", params_str, "ts", t, "user_id", USER_ID>>

\* the payload _fetch_page builds before calling _post_with_retry
BuildPayload(p, now) ==
    [page |-> p, ts |-> now, sign |-> MakeSign(ParamsStr(p, PAGE_SIZE), now)]

\* a client that signs every attempt afresh
AttemptPayloadResigned(built, now) == BuildPayload(built.page, now)

\* the payload session.post sends on a given attempt: the one built for the page
AttemptPayload(built, now) == built

\* a retry loop that gives up one attempt early
LastAttemptEarly(a) == a = MAX_RETRIES - 1

\* `attempt == config.MAX_RETRIES`
LastAttempt(a) == a = MAX_RETRIES

RECURSIVE Pow(_, _)
Pow(b, e) == IF e = 0 THEN 1 ELSE b * Pow(b, e - 1)

\* config.BACKOFF_BASE ** attempt, in milliseconds
BackoffMs(a) == (1000 * Pow(BACKOFF_BASE_NUM, a)) \div Pow(BACKOFF_BASE_DEN, a)

\* random.random() * 0.5 lies in [0, 0.5): its extremes in milliseconds
JitterMs == {0, 499}

\* Server answers.  "fail" is any transport or HTTP failure (an exception in
\* session.post, raise_for_status or response.json).
NoList == [t |-> "absent", n |-> 0]
FailResp == [kind |-> "fail", ec |-> 0, data |-> "absent", list |-> NoList, total |-> PyNone]
NotDictResp == [kind |-> "notdict", ec |-> 0, data |-> "absent", list |-> NoList, total |-> PyNone]
DictResp(ec, data, list, total) ==
    [kind |-> "dict", ec |-> ec, data |-> data, list |-> list, total |-> total]
Lists == {NoList, [t |-> "notlist", n |-> 0]} \cup {[t |-> "list", n |-> k] : k \in 0..MaxItems}
Totals == {PyNone, PyStr("3")} \cup {PyInt(k) : k \in 0..MAX_PAGES}
OkResponses ==
    {NotDictResp, DictResp(500, "absent", NoList, PyNone),
     DictResp(200, "absent", NoList, PyNone), DictResp(200, "null", NoList, PyNone)}
    \cup {DictResp(200, "object", l, tp) : l \in Lists, tp \in Totals}

\* the items of a page, tagged with the page and their position
PageItems(p, n) == [k \in 1..n |-> <<p, k>>]

\* a page check that ignores the embedded status code
RejectedNoEc(r) == r.kind = "notdict"

\* _fetch_page returns None: `not isinstance(data, dict)` or `data.get("ec") != 200`
Rejected(r) == r.kind = "notdict" \/ (r.kind = "dict" /\ r.ec # 200)

\* data.get("data", {}).get("list", []) raises AttributeError
DataRaises(r) == r.data = "null"

\* `not isinstance(items, list)`
NotAList(r) == r.data = "object" /\ r.list.t = "notlist"

\* len(items)
ItemCount(r) == IF r.data = "object" /\ r.list.t = "list" THEN r.list.n ELSE 0

\* data.get("data", {}).get("total_page")
TotalPage(r) == IF r.data = "object" THEN r.total ELSE PyNone

\* `page >= total_page` raises TypeError for a string
TotalRaises(r) == TotalPage(r).t = "str" /\ Truthy(TotalPage(r))

\* a total-page test that is off by one
ReachedTotalStrict(p, r) == Truthy(TotalPage(r)) /\ TotalPage(r).t = "int" /\ p > TotalPage(r).i

\* `total_page and page >= total_page`
ReachedTotal(p, r) == Truthy(TotalPage(r)) /\ TotalPage(r).t = "int" /\ p >= TotalPage(r).i

\* while page <= config.MAX_PAGES: ... data = self._fetch_page(...)
FetchPage ==
    /\ pc = "loop"
    /\ page <= MAX_PAGES
    /\ payload' = BuildPayload(page, clock)
    /\ attempt' = 1
    /\ posts' = <<>>
    /\ waits' = <<>>
    /\ pc' = "post"
    /\ fetched' = Append(fetched, page)
    /\ UNCHANGED <<page, all_items, clock, errors, received, last_resp, outcome, n_posts>>
    /\ UNCHANGED <<readmeVars, procVars, mainVars>>

\* the loop condition fails: return all_items
LoopExit ==
    /\ pc = "loop"
    /\ page > MAX_PAGES
    /\ pc' = "done"
    /\ outcome' = "returned"
    /\ UNCHANGED <<page, attempt, all_items, payload, clock, posts, waits, errors,
                   received, last_resp, fetched, n_posts>>
    /\ UNCHANGED <<readmeVars, procVars, mainVars>>

Sent(ok) ==
    LET sent == AttemptPayload(payload, clock)
    IN  Append(posts, [attempt |-> attempt, ts |-> sent.ts, sign |-> sent.sign,
                       sent_at |-> clock, ok |-> ok])

\* a failed attempt that is not the last: warn, sleep, try again
PostFailRetry ==
    /\ pc = "post"
    /\ ~LastAttempt(attempt)
    /\ attempt < MAX_RETRIES
    /\ posts' = Sent(FALSE)
    /\ n_posts' = n_posts + 1
    /\ UNCHANGED fetched
    /\ last_resp' = FailResp
    /\ \E jitter \in JitterMs, crossed \in 0..1 :
          LET wait == BackoffMs(attempt) + jitter
          IN  /\ clock + (wait \div 1000) + crossed <= MaxClock
              /\ clock' = clock + (wait \div 1000) + crossed
              /\ waits' = Append(waits, [attempt |-> attempt, det |-> BackoffMs(attempt),
                                         jitter |-> jitter])
    /\ attempt' = attempt + 1
    /\ UNCHANGED <<pc, page, all_items, payload, errors, received, outcome>>
    /\ UNCHANGED <<readmeVars, procVars, mainVars>>

\* the last attempt fails: _post_with_retry raises, _fetch_page logs the error and
\* returns None, fetch_all_pages breaks
PostFailLast ==
    /\ pc = "post"
    /\ LastAttempt(attempt) \/ attempt >= MAX_RETRIES
    /\ posts' = Sent(FALSE)
    /\ n_posts' = n_posts + 1
    /\ UNCHANGED fetched
    /\ last_resp' = FailResp
    /\ errors' = Append(errors, [page |-> page, kind |-> "request_failed"])
    /\ pc' = "done"
    /\ outcome' = "returned"
    /\ UNCHANGED <<page, attempt, all_items, payload, clock, waits, received>>
    /\ UNCHANGED <<readmeVars, procVars, mainVars>>

\* a loop body that goes on two pages further
AfterPageSkips(r) ==
    LET its == PageItems(page, ItemCount(r))
        base == [pc |-> "done", outcome |-> "returned", page |-> page,
                 all_items |-> all_items, received |-> received]
        kept == [base EXCEPT !.all_items = all_items \o its,
                             !.received = Append(received,
                                                 [items |-> its, total |-> TotalPage(r)])]
    IN  IF DataRaises(r) THEN [base EXCEPT !.outcome = "raised"]
        ELSE IF NotAList(r) THEN base
        ELSE IF TotalRaises(r) THEN [kept EXCEPT !.outcome = "raised"]
        ELSE IF ReachedTotal(page, r) THEN kept
        ELSE IF ItemCount(r) = 0 THEN kept
        ELSE [kept EXCEPT !.pc = "loop", !.outcome = "running", !.page = page + 2]

\* the rest of the loop body of fetch_all_pages once a page's data is accepted:
\* [pc, outcome, page, all_items, received] after it
AfterPage(r) ==
    LET its == PageItems(page, ItemCount(r))
        base == [pc |-> "done", outcome |-> "returned", page |-> page,
                 all_items |-> all_items, received |-> received]
        kept == [base EXCEPT !.all_items = all_items \o its,
                             !.received = Append(received,
                                                 [items |-> its, total |-> TotalPage(r)])]
    IN  IF DataRaises(r) THEN [base EXCEPT !.outcome = "raised"]
        ELSE IF NotAList(r) THEN base
        ELSE IF TotalRaises(r) THEN [kept EXCEPT !.outcome = "raised"]
        ELSE IF ReachedTotal(page, r) THEN kept
        ELSE IF ItemCount(r) = 0 THEN kept
        ELSE [kept EXCEPT !.pc = "loop", !.outcome = "running", !.page = page + 1]

\* an attempt succeeds: _post_with_retry returns response.json()
PostOk(r) ==
    /\ pc = "post"
    /\ posts' = Sent(TRUE)
    /\ n_posts' = n_posts + 1
    /\ UNCHANGED fetched
    /\ last_resp' = r
    /\ IF Rejected(r)
       THEN /\ errors' = Append(errors, [page |-> page,
                                        kind |-> IF r.kind = "notdict" THEN "not_json" ELSE "ec"])
            /\ pc' = "done"
            /\ outcome' = "returned"
            /\ UNCHANGED <<page, all_items, received>>
       ELSE /\ pc' = AfterPage(r).pc
            /\ outcome' = AfterPage(r).outcome
            /\ page' = AfterPage(r).page
            /\ all_items' = AfterPage(r).all_items
            /\ received' = AfterPage(r).received
            /\ UNCHANGED errors
    /\ UNCHANGED <<attempt, payload, clock, waits>>
    /\ UNCHANGED <<readmeVars, procVars, mainVars>>

(***************************************************************************)
(* SponsorDataProcessor                                                    *)
(***************************************************************************)
AVATAR_SIZE == 50

\* Bounds of the model.  Timestamps 0..MaxTs are ordinary; TooLate stands for
\* a timestamp past year 9999, for which datetime.fromtimestamp raises.
MaxOrders == 3
MaxResolveOrders == 2
MaxSponsors == 1
MaxTs == 2
TooLate == MaxTs + 1

\* the JSON name sentinel of _generate_sponsor_item (U+533F U+540D, "anonymous")
ANONYMOUS == "anonymous"

\* int(s) for a string: "0" parses, "abc" raises ValueError
IntParses(s) == s = "0"
IntOfStr(s) == 0

\* _get_order_timestamp
GetOrderTimestamp(order) ==
    LET v == PyOr(PyOr(order.last_pay_time, order.create_time), PyInt(0))
    IN  IF v.t = "int" THEN v.i
        ELSE IF v.t = "str" /\ IntParses(v.s) THEN IntOfStr(v.s)
        ELSE 0

\* datetime.fromtimestamp raises (year out of range)
FormatRaises(timestamp) == timestamp >= TooLate

\* _format_timestamp: "-" or the civil time at UTC+8
FormatTimestamp(timestamp) ==
    IF timestamp = 0 THEN [t |-> "dash", secs |-> 0]
    ELSE [t |-> "civil", secs |-> timestamp + 8 * 3600]

\* _safe_text on the strings of the model: newlines to spaces, strip, "|" escaped
SafeText(value) ==
    IF value.t = "none" THEN "-"
    ELSE LET text == CASE value.s = " " -> ""
                       [] value.s = "a|b" -> "a&#124;b"
                       [] OTHER -> value.s
         IN  IF text # "" THEN text ELSE "-"

\* _build_user_map: later sponsors overwrite earlier ones
RECURSIVE BuildUserMap(_, _)
BuildUserMap(sps, m) ==
    IF sps = <<>> THEN m
    ELSE LET user == Head(sps)
             entry == [name |-> PyOr(user.name, PyStr("-")),
                       avatar |-> PyOr(user.avatar, PyStr(""))]
             m2 == IF Truthy(user.user_id)
                   THEN [k \in DOMAIN m \cup {user.user_id.s} |->
                            IF k = user.user_id.s THEN entry ELSE m[k]]
                   ELSE m
         IN  BuildUserMap(Tail(sps), m2)

\* self.user_map.get(user_id, {})
UserInfo(m, user_id) ==
    IF user_id.t = "str" /\ user_id.s \in DOMAIN m THEN m[user_id.s]
    ELSE [name |-> PyNone, avatar |-> PyNone]

\* a JSON name with no sentinel
ItemNameNoSentinel(info, order) == PyOr(info.name, order.user_name)

\* a JSON name with the sentinel of the table
ItemNameDash(info, order) == PyOr(PyOr(info.name, order.user_name), PyStr("-"))

\* the name of a JSON entry
ItemName(info, order) == PyOr(PyOr(info.name, order.user_name), PyStr(ANONYMOUS))

\* the avatar of a JSON entry and of a table row
ItemAvatar(info, order) == PyOr(PyOr(info.avatar, order.avatar), PyStr(""))

\* the name cell of a table row
RowName(info, order) == SafeText(PyOr(PyOr(info.name, order.user_name), PyStr("-")))

\* _generate_table_row; src is the order's position in self.orders
GenerateTableRow(m, os, k) ==
    LET info == UserInfo(m, os[k].user_id)
        avatar == ItemAvatar(info, os[k])
    IN  [src |-> k,
         avatar_cell |-> IF Truthy(avatar)
                         THEN [t |-> "img", src |-> avatar.s, width |-> AVATAR_SIZE]
                         ELSE [t |-> "dash", src |-> "", width |-> 0],
         name |-> RowName(info, os[k])]

\* _generate_sponsor_item, when it does not raise
GenerateSponsorItem(m, os, k) ==
    LET info == UserInfo(m, os[k].user_id)
        timestamp == GetOrderTimestamp(os[k])
    IN  [src |-> k,
         user_id |-> os[k].user_id,
         name |-> ItemName(info, os[k]),
         avatar |-> ItemAvatar(info, os[k]),
         timestamp |-> timestamp,
         time |-> FormatTimestamp(timestamp)]

\* a descending sort that reverses ties (an ascending sort, reversed)
InsertAtUnstable(acc, os, k) ==
    Cardinality({j \in 1..Len(acc) :
                    GetOrderTimestamp(os[acc[j]]) > GetOrderTimestamp(os[k])})

\* where sorted(..., reverse=True) puts an element among those already placed:
\* after every element whose key is at least its own (the sort is stable)
InsertAt(acc, os, k) ==
    Cardinality({j \in 1..Len(acc) :
                    GetOrderTimestamp(os[acc[j]]) >= GetOrderTimestamp(os[k])})

\* sorted(self.orders, key=self._get_order_timestamp, reverse=True), as positions
RECURSIVE SortedFrom(_, _, _)
SortedFrom(acc, os, k) ==
    IF k > Len(os) THEN acc
    ELSE LET at == InsertAt(acc, os, k)
         IN  SortedFrom(SubSeq(acc, 1, at) \o <<k>> \o SubSeq(acc, at + 1, Len(acc)),
                        os, k + 1)

SortedOrders(os) == SortedFrom(<<>>, os, 1)

RECURSIVE SelectSeqBy(_, _)
SelectSeqBy(sq, keep) ==
    IF sq = <<>> THEN <<>>
    ELSE (IF Head(sq) \in keep THEN <<Head(sq)>> ELSE <<>>) \o SelectSeqBy(Tail(sq), keep)

\* SponsorDataProcessor.__init__
Construct ==
    /\ step = "init"
    /\ user_map' = BuildUserMap(sponsors, <<>>)
    /\ step' = "built"
    /\ UNCHANGED <<sponsors, orders, rows, items>>
    /\ UNCHANGED <<readmeVars, fetchVars, mainVars>>

\* generate_markdown: one row per order, in sorted order (a row is skipped only
\* when user_map.get raises, which no order of the model triggers)
GenerateMarkdown ==
    /\ step = "built"
    /\ LET sorted == SortedOrders(orders)
       IN  rows' = [j \in 1..Len(sorted) |-> GenerateTableRow(user_map, orders, sorted[j])]
    /\ step' = "markdown"
    /\ UNCHANGED <<sponsors, orders, user_map, items>>
    /\ UNCHANGED <<readmeVars, fetchVars, mainVars>>

\* generate_json_data: one item per order, in sorted order; an order whose
\* item raises (its time cannot be formatted) is left out
GenerateJsonData ==
    /\ step = "markdown"
    /\ LET sorted == SortedOrders(orders)
           good == {k \in 1..Len(orders) : ~FormatRaises(GetOrderTimestamp(orders[k]))}
           kept == SelectSeqBy(sorted, good)
       IN  items' = [j \in 1..Len(kept) |-> GenerateSponsorItem(user_map, orders, kept[j])]
    /\ step' = "json"
    /\ UNCHANGED <<sponsors, orders, user_map, rows>>
    /\ UNCHANGED <<readmeVars, fetchVars, mainVars>>

(***************************************************************************)
(* main                                                                    *)
(***************************************************************************)

\* a credentials check that passes when either one is set
MissingCredentialsBoth(e) == e.user_id = "" /\ e.token = ""

\* not config.USER_ID or not config.TOKEN
MissingCredentials(e) == e.user_id = "" \/ e.token = ""

\* what the server may answer to the last attempt for a page
MainResponses ==
    {FailResp, DictResp(500, "absent", NoList, PyNone), DictResp(200, "null", NoList, PyNone),
     DictResp(200, "object", [t |-> "list", n |-> 0], PyNone),
     DictResp(200, "object", [t |-> "list", n |-> 1], PyNone)}

\* the server's answers to pages 1..MAX_PAGES
Scripts == [1..MAX_PAGES -> MainResponses]

\* fetch_all_pages from page p on, run to its end against a script:
\* [outcome, items, pages], pages being the number of pages requested
RECURSIVE RunPages(_, _, _)
RunPages(script, p, acc) ==
    IF p > MAX_PAGES THEN [outcome |-> "returned", items |-> acc, pages |-> p - 1]
    ELSE LET r == script[p]
             its == PageItems(p, ItemCount(r))
         IN  IF r.kind = "fail" \/ Rejected(r)
                THEN [outcome |-> "returned", items |-> acc, pages |-> p]
             ELSE IF DataRaises(r) THEN [outcome |-> "raised", items |-> acc, pages |-> p]
             ELSE IF NotAList(r) THEN [outcome |-> "returned", items |-> acc, pages |-> p]
             ELSE IF TotalRaises(r)
                THEN [outcome |-> "raised", items |-> acc \o its, pages |-> p]
             ELSE IF ReachedTotal(p, r) \/ ItemCount(r) = 0
                THEN [outcome |-> "returned", items |-> acc \o its, pages |-> p]
             ELSE RunPages(script, p + 1, acc \o its)

FetchAllPages(script) == RunPages(script, 1, <<>>)

\* an empty-orders check that never stops the run
NoOrdersNever(os) == FALSE

\* not orders
NoOrders(os) == os = <<>>

\* the text generate_markdown returns: a heading and one row per order
Markdown(os) == <<"x">> \o [k \in 1..Len(os) |-> "x"]

\* a README failure that ends the run
AfterReadmeAborts(failed) == IF failed THEN "end" ELSE "json"

\* where main goes after the README try block: its except clause only logs
AfterReadme(failed) == "json"

\* the credentials check
CheckCredentials ==
    /\ mpc = "start"
    /\ IF MissingCredentials(env)
       THEN mpc' = "end" /\ logged' = Append(logged, "no_credentials")
       ELSE mpc' = "sponsors" /\ UNCHANGED logged
    /\ UNCHANGED <<env, reqs, m_sponsors, m_orders, fetches, json, written>>
    /\ UNCHANGED <<readmeVars, fetchVars, procVars>>

\* sponsors = client.fetch_sponsors(), [] when it raises
FetchSponsors ==
    /\ mpc = "sponsors"
    /\ \E script \in Scripts :
          LET res == FetchAllPages(script)
          IN  /\ reqs' = reqs + res.pages
              /\ fetches' = Append(fetches, [api |-> "sponsors", outcome |-> res.outcome,
                                             items |-> res.items, first |-> script[1]])
              /\ IF res.outcome = "raised"
                 THEN m_sponsors' = <<>> /\ logged' = Append(logged, "sponsors_failed")
                 ELSE m_sponsors' = res.items /\ UNCHANGED logged
    /\ mpc' = "orders"
    /\ UNCHANGED <<env, m_orders, json, written>>
    /\ UNCHANGED <<readmeVars, fetchVars, procVars>>

\* orders = client.fetch_orders(); main returns when it raises
FetchOrders ==
    /\ mpc = "orders"
    /\ \E script \in Scripts :
          LET res == FetchAllPages(script)
          IN  /\ reqs' = reqs + res.pages
              /\ fetches' = Append(fetches, [api |-> "orders", outcome |-> res.outcome,
                                             items |-> res.items, first |-> script[1]])
              /\ IF res.outcome = "raised"
                 THEN /\ mpc' = "end" /\ logged' = Append(logged, "orders_failed")
                      /\ UNCHANGED m_orders
                 ELSE mpc' = "check" /\ m_orders' = res.items /\ UNCHANGED logged
    /\ UNCHANGED <<env, m_sponsors, json, written>>
    /\ UNCHANGED <<readmeVars, fetchVars, procVars>>

\* if not orders: return
CheckOrders ==
    /\ mpc = "check"
    /\ IF NoOrders(m_orders)
       THEN mpc' = "end" /\ logged' = Append(logged, "no_orders")
       ELSE mpc' = "readme" /\ UNCHANGED logged
    /\ UNCHANGED <<env, reqs, m_sponsors, m_orders, fetches, json, written>>
    /\ UNCHANGED <<readmeVars, fetchVars, procVars>>

\* the README try block: updater.update(markdown) either writes the file or
\* raises (the file cannot be read or written) and leaves it as it was
UpdateReadme ==
    /\ mpc = "readme"
    /\ \E failed \in BOOLEAN :
          /\ IF failed
             THEN /\ logged' = Append(logged, "readme_failed")
                  /\ UNCHANGED <<file, log, written>>
             ELSE /\ file' = [exists |-> TRUE, text |-> UpdatedText(file, Markdown(m_orders))]
                  /\ log' = Append(log, [content |-> Markdown(m_orders), before |-> file,
                                         after |-> file'])
                  /\ written' = Append(written, "readme")
                  /\ UNCHANGED logged
          /\ mpc' = AfterReadme(failed)
    /\ UNCHANGED <<env, reqs, m_sponsors, m_orders, fetches, json>>
    /\ UNCHANGED <<fetchVars, procVars>>

\* the JSON try block: exporter.export(json_data) either writes the file or raises
ExportJson ==
    /\ mpc = "json"
    /\ \E failed \in BOOLEAN :
          IF failed
          THEN logged' = Append(logged, "json_failed") /\ UNCHANGED <<json, written>>
          ELSE /\ json' = [exists |-> TRUE, total_count |-> Len(m_orders)]
               /\ written' = Append(written, "json")
               /\ UNCHANGED logged
    /\ mpc' = "end"
    /\ UNCHANGED <<env, reqs, m_sponsors, m_orders, fetches>>
    /\ UNCHANGED <<readmeVars, fetchVars, procVars>>

(***************************************************************************)
(* Initial states and specifications                                       *)
(***************************************************************************)
ReadmeIdle == file = [exists |-> FALSE, text |-> <<>>] /\ log = <<>>

FetchIdle ==
    /\ pc = "idle" /\ page = 1 /\ attempt = 0 /\ all_items = <<>>
    /\ payload = BuildPayload(0, 0) /\ clock = 0 /\ posts = <<>> /\ waits = <<>>
    /\ errors = <<>> /\ received = <<>> /\ last_resp = FailResp /\ outcome = "idle"
    /\ fetched = <<>> /\ n_posts = 0

ProcIdle ==
    /\ sponsors = <<>> /\ orders = <<>> /\ user_map = <<>> /\ rows = <<>>
    /\ items = <<>> /\ step = "idle"

MainIdle ==
    /\ mpc = "idle" /\ env = [user_id |-> USER_ID, token |-> TOKEN] /\ reqs = 0
    /\ m_sponsors = <<>> /\ m_orders = <<>> /\ fetches = <<>>
    /\ json = [exists |-> FALSE, total_count |-> 0] /\ written = <<>> /\ logged = <<>>

\* README.md before the run: missing, or any text
InitReadme ==
    /\ file \in {[exists |-> FALSE, text |-> <<>>]}
                \cup {[exists |-> TRUE, text |-> t] : t \in SeqsUpTo(Alphabet, MaxFileLen)}
    /\ log = <<>>
    /\ FetchIdle /\ ProcIdle /\ MainIdle

NextReadme == \E content \in Contents : Update(content)

SpecReadme == InitReadme /\ [][NextReadme]_vars

\* fetch_all_pages: all_items = [], page = 1
InitFetch ==
    /\ pc = "loop" /\ page = 1 /\ attempt = 0 /\ all_items = <<>>
    /\ payload = BuildPayload(0, 0) /\ clock = 0 /\ posts = <<>> /\ waits = <<>>
    /\ errors = <<>> /\ received = <<>> /\ last_resp = FailResp /\ outcome = "running"
    /\ fetched = <<>> /\ n_posts = 0
    /\ ReadmeIdle /\ ProcIdle /\ MainIdle

NextFetch ==
    \/ FetchPage
    \/ LoopExit
    \/ PostFailRetry
    \/ PostFailLast
    \/ \E r \in OkResponses : PostOk(r)

SpecFetch == InitFetch /\ [][NextFetch]_vars

\* the interpreter keeps running the call until it returns or raises
SpecFetchFair == SpecFetch /\ WF_vars(NextFetch)

Absent == PyNone

\* orders that differ in their time fields only
SortOrder(lp, ct) ==
    [user_id |-> PyStr("u1"), user_name |-> Absent, avatar |-> Absent,
     last_pay_time |-> lp, create_time |-> ct]
LastPayValues == {Absent, PyStr("0"), PyStr("abc")} \cup {PyInt(k) : k \in 0..TooLate}
CreateValues == {Absent, PyInt(MaxTs)}
SortOrderSet == {SortOrder(lp, ct) : lp \in LastPayValues, ct \in CreateValues}

InitSort ==
    /\ sponsors = <<>>
    /\ orders \in SeqsUpTo(SortOrderSet, MaxOrders)
    /\ user_map = <<>> /\ rows = <<>> /\ items = <<>> /\ step = "init"
    /\ ReadmeIdle /\ FetchIdle /\ MainIdle

NextProc == Construct \/ GenerateMarkdown \/ GenerateJsonData

SpecSort == InitSort /\ [][NextProc]_vars

\* profiles and orders that differ in identity, name and avatar; the k-th
\* order was paid at time k
Profiles ==
    {[user_id |-> PyStr("u2"), name |-> n, avatar |-> a] :
        n \in {Absent, PyStr(""), PyStr("Bob")}, a \in {Absent, PyStr("p.png")}}
    \cup {[user_id |-> Absent, name |-> PyStr("Bob"), avatar |-> PyStr("p.png")]}
ResolveOrderSet ==
    {[user_id |-> PyStr(u), user_name |-> n, avatar |-> a,
      last_pay_time |-> Absent, create_time |-> Absent] :
        u \in {"u1", "u2"}, n \in {Absent, PyStr("a|b")}, a \in {Absent, PyStr("o.png")}}
PaidInTurn(os) == [k \in 1..Len(os) |-> [os[k] EXCEPT !.last_pay_time = PyInt(k)]]

InitResolve ==
    /\ sponsors \in SeqsUpTo(Profiles, MaxSponsors)
    /\ orders \in {PaidInTurn(os) : os \in SeqsUpTo(ResolveOrderSet, MaxResolveOrders)}
    /\ user_map = <<>> /\ rows = <<>> /\ items = <<>> /\ step = "init"
    /\ ReadmeIdle /\ FetchIdle /\ MainIdle

SpecResolve == InitResolve /\ [][NextProc]_vars

\* the environment and README.md before a run of main; sponsor.json is absent
Credentials == [user_id : {"", USER_ID}, token : {"", TOKEN}]
MainFiles ==
    {[exists |-> FALSE, text |-> <<>>], [exists |-> TRUE, text |-> <<"x">>],
     [exists |-> TRUE, text |-> <<MARKER_START, "x", MARKER_END>>]}

InitMain ==
    /\ mpc = "start" /\ env \in Credentials /\ reqs = 0
    /\ m_sponsors = <<>> /\ m_orders = <<>> /\ fetches = <<>>
    /\ json = [exists |-> FALSE, total_count |-> 0] /\ written = <<>> /\ logged = <<>>
    /\ file \in MainFiles /\ log = <<>>
    /\ FetchIdle /\ ProcIdle

NextMain ==
    \/ CheckCredentials
    \/ FetchSponsors
    \/ FetchOrders
    \/ CheckOrders
    \/ UpdateReadme
    \/ ExportJson

SpecMain == InitMain /\ [][NextMain]_vars

(***************************************************************************)
(* Properties of ReadmeUpdater                                             *)
(***************************************************************************)
HasBoth(text) == Contains(text, MARKER_START) /\ Contains(text, MARKER_END)

\* C1: two consecutive update calls with the same content leave the file after
\* the second call identical to the file after the first, whatever the file
\* was before.
C1_Idempotent ==
    \A k \in 2..Len(log) :
        log[k].content = log[k - 1].content => log[k].after = log[k - 1].after

\* the managed region of a text with both markers: the first start marker and
\* the first end marker after it (0 if there is none)
RegionStart(text) == FirstIndex(text, MARKER_START, 1)
RegionEnd(text) == FirstIndex(text, MARKER_END, RegionStart(text) + 1)

\* C2: when the file holds both markers, an update leaves the text before the
\* start marker and the text after the end marker unchanged: the new file is
\* the old text before the start marker, a region, and the old text after the
\* end marker of the old region.
C2_OutsidePreserved ==
    \A k \in 1..Len(log) :
        LET old == log[k].before.text
            new == log[k].after.text
            head == SubSeq(old, 1, RegionStart(old))
            tail == SubSeq(old, RegionEnd(old), Len(old))
        IN  (log[k].before.exists /\ HasBoth(old) /\ RegionEnd(old) > 0)
            => /\ Len(new) >= Len(head) + Len(tail)
               /\ SubSeq(new, 1, Len(head)) = head
               /\ SubSeq(new, Len(new) - Len(tail) + 1, Len(new)) = tail

(***************************************************************************)
(* Properties of AfdianAPIClient                                           *)
(***************************************************************************)
RECURSIVE ItemsOf(_)
ItemsOf(rs) == IF rs = <<>> THEN <<>> ELSE Head(rs).items \o ItemsOf(Tail(rs))

\* C3: once page p was accepted with a positive declared total_page T and
\* p >= T, no page after p is requested: the fetch has returned and the page
\* of the current payload is not past p.
C3_StopsAtDeclaredTotal ==
    \A p \in 1..Len(received) :
        (received[p].total.t = "int" /\ received[p].total.i > 0 /\ p >= received[p].total.i)
        => /\ page = p
           /\ payload.page <= p
           /\ pc = "done"
           /\ outcome = "returned"

\* two non-empty pages, the second declaring total_page = 2, below the page cap
C3_Witness ==
    /\ Len(received) = 2
    /\ received[2].total = PyInt(2)
    /\ received[1].items # <<>> /\ received[2].items # <<>>
    /\ 2 < MAX_PAGES
    /\ outcome = "returned"

AllFailed == \A k \in 1..Len(posts) : ~posts[k].ok
FinalErrors == Len(SelectSeq(errors, LAMBDA e : e.kind = "request_failed"))

\* C4: the attempts for a page are numbered 1, 2, ... and never exceed
\* MAX_RETRIES; a successful attempt is the last one; the final error is
\* surfaced once, exactly when MAX_RETRIES attempts were made and all failed.
C4_RetryBound ==
    /\ Len(posts) <= MAX_RETRIES
    /\ \A k \in 1..Len(posts) : posts[k].attempt = k
    /\ \A k \in 1..(Len(posts) - 1) : ~posts[k].ok
    /\ FinalErrors = (IF Len(posts) = MAX_RETRIES /\ AllFailed THEN 1 ELSE 0)
    /\ (posts # <<>> /\ pc = "post") => (AllFailed /\ Len(posts) < MAX_RETRIES)
    /\ (posts # <<>> /\ AllFailed /\ Len(posts) < MAX_RETRIES) => pc = "post"

\* every attempt of a page failed
C4_Witness ==
    /\ Len(posts) = MAX_RETRIES
    /\ AllFailed
    /\ errors = <<[page |-> page, kind |-> "request_failed"]>>
    /\ outcome = "returned"

\* C5: the wait before attempt k+1, in expectation (the deterministic part
\* plus the mean jitter of 250 ms), is larger than the wait before attempt k.
C5_BackoffIncreasing ==
    \A k \in 1..(Len(waits) - 1) : waits[k + 1].det + 250 > waits[k].det + 250

\* C6 (as claimed): every attempt carries the timestamp of the moment it is
\* sent and a signature over that timestamp.
C6_ResignedPerAttempt ==
    \A k \in 1..Len(posts) :
        /\ posts[k].ts = posts[k].sent_at
        /\ posts[k].sign = MakeSign(ParamsStr(payload.page, PAGE_SIZE), posts[k].sent_at)

\* C6 (amended): every attempt for a page carries the timestamp taken once,
\* when the page's request was built right before the first attempt, and the
\* signature over that timestamp; a retry resends both, however far the clock
\* has advanced.
C6_SignedOncePerPage ==
    \A k \in 1..Len(posts) :
        /\ posts[k].ts = payload.ts
        /\ payload.ts = posts[1].sent_at
        /\ posts[k].ts <= posts[k].sent_at
        /\ posts[k].sign = MakeSign(ParamsStr(payload.page, PAGE_SIZE), payload.ts)

\* a retry sent after the clock has advanced
C6_Witness ==
    /\ Len(posts) >= 2
    /\ posts[2].sent_at > posts[1].sent_at
    /\ posts[2].ts = posts[1].ts

\* the latest POST ended the page without data: retries exhausted, payload not
\* an object, embedded status not 200, or the item list not a list
Exhausted == posts # <<>> /\ AllFailed /\ Len(posts) = MAX_RETRIES
PageRejected ==
    /\ posts # <<>>
    /\ posts[Len(posts)].ok
    /\ \/ last_resp.kind = "notdict"
       \/ last_resp.kind = "dict" /\ last_resp.ec # 200
       \/ last_resp.kind = "dict" /\ last_resp.data = "object" /\ last_resp.list.t = "notlist"

\* C7: when page p is rejected or exhausts its retries, the fetch returns (it
\* does not raise and requests nothing more) exactly the items of pages
\* 1..p-1, in page order.
C7_PartialResults ==
    (Exhausted \/ PageRejected)
    => /\ outcome = "returned"
       /\ pc = "done"
       /\ payload.page = page
       /\ Len(received) = page - 1
       /\ all_items = ItemsOf(received)
       /\ \A p \in 1..Len(received) :
             received[p].items = [k \in 1..Len(received[p].items) |-> <<p, k>>]

\* the third page is rejected after two non-empty pages
C7_Witness ==
    /\ PageRejected
    /\ last_resp.kind = "dict" /\ last_resp.ec # 200
    /\ page = 3
    /\ all_items = <<<<1, 1>>, <<2, 1>>>>

(***************************************************************************)
(* Properties of SponsorDataProcessor                                      *)
(***************************************************************************)
Ts(k) == GetOrderTimestamp(orders[k])

\* a sequence of order positions is descending by resolved timestamp, orders
\* of equal timestamp in their input order
StableDescending(srcs) ==
    \A a, b \in 1..Len(srcs) :
        a < b => \/ Ts(srcs[a]) > Ts(srcs[b])
                 \/ Ts(srcs[a]) = Ts(srcs[b]) /\ srcs[a] < srcs[b]

RowSrcs == [j \in 1..Len(rows) |-> rows[j].src]
ItemSrcs == [j \in 1..Len(items) |-> items[j].src]
RowPos(k) == CHOOSE j \in 1..Len(rows) : rows[j].src = k

\* C8: the table has one row per order and the document one entry per order
\* whose time can be rendered; both are descending by resolved timestamp with
\* ties in input order, so the entries are in the order of their rows.
C8_SameDescendingOrder ==
    /\ step \in {"markdown", "json"} =>
          /\ Len(rows) = Len(orders)
          /\ {rows[j].src : j \in 1..Len(rows)} = 1..Len(orders)
          /\ StableDescending(RowSrcs)
    /\ step = "json" =>
          /\ StableDescending(ItemSrcs)
          /\ {items[j].src : j \in 1..Len(items)} = {k \in 1..Len(orders) : Ts(k) < TooLate}
          /\ \A j \in 1..Len(items) : items[j].timestamp = Ts(items[j].src)
          /\ \A a, b \in 1..Len(items) :
                a < b => RowPos(items[a].src) < RowPos(items[b].src)

\* three orders: the first two tie on a missing timestamp, the third is newer
C8_Witness ==
    /\ step = "json"
    /\ Len(orders) = 3
    /\ Ts(1) = 0 /\ Ts(2) = 0 /\ Ts(3) > 0
    /\ RowSrcs = <<3, 1, 2>>
    /\ ItemSrcs = <<3, 1, 2>>

NoProfile(order) == ~(order.user_id.t = "str" /\ order.user_id.s \in DOMAIN user_map)

TimeRendered(item) == item.time.t \in {"dash", "civil"}

\* C9 (as claimed): in every entry neither name nor avatar nor time is null or
\* empty.
C9_NothingEmpty ==
    step = "json" =>
        \A j \in 1..Len(items) :
            /\ Truthy(items[j].name)
            /\ Truthy(items[j].avatar)
            /\ TimeRendered(items[j])

\* C9 (amended): an entry with no matching profile takes its name and avatar
\* from the transaction when they are present; otherwise the name is the
\* sentinel and the avatar is the empty string.  In every entry the name and
\* the time are neither null nor empty, and the avatar is a string, possibly
\* empty, never null.
C9_NameAndTimeNeverEmpty ==
    step = "json" =>
        \A j \in 1..Len(items) :
            LET order == orders[items[j].src]
            IN  /\ Truthy(items[j].name) /\ items[j].name.t = "str"
                /\ items[j].avatar.t = "str"
                /\ TimeRendered(items[j])
                /\ NoProfile(order) =>
                      /\ items[j].name = IF Truthy(order.user_name) THEN order.user_name
                                         ELSE PyStr(ANONYMOUS)
                      /\ items[j].avatar = IF Truthy(order.avatar) THEN order.avatar
                                           ELSE PyStr("")

\* an entry with no profile and no embedded name or avatar
C9_Witness ==
    /\ step = "json"
    /\ \E j \in 1..Len(items) :
          /\ NoProfile(orders[items[j].src])
          /\ ~Truthy(orders[items[j].src].user_name)
          /\ ~Truthy(orders[items[j].src].avatar)
          /\ items[j].name = PyStr(ANONYMOUS)
          /\ items[j].avatar = PyStr("")

Nameless(order) == NoProfile(order) /\ ~Truthy(order.user_name)

\* C10 (as claimed): a transaction with neither a matching profile nor an
\* embedded name appears in the document with name "-", the sentinel of the
\* table.
C10_DashInDocument ==
    step = "json" =>
        \A j \in 1..Len(items) :
            Nameless(orders[items[j].src])
            => /\ items[j].name = PyStr("-")
               /\ items[j].name.s = rows[RowPos(items[j].src)].name

\* C10 (amended): such a transaction appears in the document with the name
\* sentinel of _generate_sponsor_item (U+533F U+540D), while its table row
\* shows "-".
C10_SentinelNames ==
    step = "json" =>
        \A j \in 1..Len(items) :
            Nameless(orders[items[j].src])
            => /\ items[j].name = PyStr(ANONYMOUS)
               /\ rows[RowPos(items[j].src)].name = "-"

\* orders u1@1 and u2@2 with the single profile u2 = "Bob"
C10_Witness ==
    /\ step = "json"
    /\ Len(sponsors) = 1 /\ sponsors[1].user_id = PyStr("u2") /\ sponsors[1].name = PyStr("Bob")
    /\ Len(orders) = 2
    /\ orders[1].user_id = PyStr("u1") /\ ~Truthy(orders[1].user_name)
    /\ orders[2].user_id = PyStr("u2")
    /\ [j \in 1..Len(items) |-> <<items[j].name.s, items[j].timestamp>>]
          = <<<<"Bob", 2>>, <<ANONYMOUS, 1>>>>

(***************************************************************************)
(* Further properties of ReadmeUpdater                                     *)
(***************************************************************************)
OneMarker(text) == Contains(text, MARKER_START) # Contains(text, MARKER_END)

\* the position of the last character of text that is not whitespace (0 if none)
LastInk(text) ==
    IF \E i \in 1..Len(text) : text[i] \notin Whitespace
    THEN CHOOSE i \in 1..Len(text) :
            text[i] \notin Whitespace /\ \A j \in (i + 1)..Len(text) : text[j] \in Whitespace
    ELSE 0

\* C11: when the existing file holds exactly one of the two markers, update
\* appends a new block after the right-trimmed existing text: the new file is
\* the old text up to its last non-whitespace character, a blank line, the
\* start marker, the content and the end marker, each on its own line.
C11_OrphanMarkerAppends ==
    \A k \in 1..Len(log) :
        LET old == log[k].before.text
        IN  (log[k].before.exists /\ OneMarker(old))
            => log[k].after.text
                  = SubSeq(old, 1, LastInk(old))
                    \o <<"n", "n", MARKER_START, "n">> \o log[k].content
                    \o <<"n", MARKER_END, "n">>

\* an update of a file that holds only the start marker and ends in a newline
C11_Witness ==
    /\ Len(log) >= 1
    /\ log[1].before = [exists |-> TRUE, text |-> <<MARKER_START, "x", "n">>]
    /\ log[1].content = <<"x">>
    /\ log[1].after.exists

\* C15: when both markers are present, the span update replaces runs from the
\* first start marker to the first end marker after it: the new file is the
\* old text before that start marker, the new block, and the old text after
\* that end marker; an end marker before the start marker stays where it was.
C15_RegionDelimitation ==
    \A k \in 1..Len(log) :
        LET old == log[k].before.text
        IN  (log[k].before.exists /\ HasBoth(old) /\ RegionEnd(old) > 0)
            => log[k].after.text
                  = SubSeq(old, 1, RegionStart(old) - 1)
                    \o <<MARKER_START, "n">> \o log[k].content \o <<"n", MARKER_END>>
                    \o SubSeq(old, RegionEnd(old) + 1, Len(old))

MarkerFree(content) == ~Contains(content, MARKER_START) /\ ~Contains(content, MARKER_END)

IsPrefix(a, b) == Len(a) <= Len(b) /\ SubSeq(b, 1, Len(a)) = a
IsSuffix(a, b) == Len(a) <= Len(b) /\ SubSeq(b, Len(b) - Len(a) + 1, Len(b)) = a

\* C20: after any sequence of updates with marker-free contents, the text
\* between the first start marker of the file and the first end marker after
\* it is a newline, the last content and a newline; and the text that was
\* outside the managed region before the sequence is still there (the text
\* before and after the region of a file that had one, the right-trimmed text
\* of a file that had none).
RegionHolds(first, now, content) ==
    /\ RegionStart(now) > 0 /\ RegionEnd(now) > 0
    /\ SubSeq(now, RegionStart(now) + 1, RegionEnd(now) - 1) = <<"n">> \o content \o <<"n">>
    /\ first.exists =>
          IF HasBoth(first.text) /\ RegionEnd(first.text) > 0
          THEN /\ IsPrefix(SubSeq(first.text, 1, RegionStart(first.text) - 1), now)
               /\ IsSuffix(SubSeq(first.text, RegionEnd(first.text) + 1,
                                  Len(first.text)), now)
          ELSE IsPrefix(SubSeq(first.text, 1, LastInk(first.text)), now)

C20_ManagedRegion ==
    (Len(log) >= 1 /\ \A k \in 1..Len(log) : MarkerFree(log[k].content))
    => RegionHolds(log[1].before, file.text, log[Len(log)].content)

Count(text, sep) == Cardinality({i \in 1..Len(text) : text[i] = sep})

\* a file the postcondition can be kept for: missing, without a start marker,
\* or with exactly one start marker followed by exactly one end marker
Regular(f) ==
    \/ ~f.exists
    \/ ~Contains(f.text, MARKER_START)
    \/ /\ Count(f.text, MARKER_START) = 1 /\ Count(f.text, MARKER_END) = 1
       /\ RegionEnd(f.text) > 0

\* the postcondition does hold for a file that at the start is missing, holds
\* no start marker, or holds exactly one start marker followed by exactly one
\* end marker
ManagedRegionRegular ==
    (Len(log) >= 1 /\ Regular(log[1].before)
        /\ \A k \in 1..Len(log) : MarkerFree(log[k].content))
    => RegionHolds(log[1].before, file.text, log[Len(log)].content)

(***************************************************************************)
(* Further properties of AfdianAPIClient                                   *)
(***************************************************************************)

\* a response that passes the ec == 200 check although its data field is null
\* or its total_page is not a number
Malformed(r) ==
    /\ r.kind = "dict" /\ r.ec = 200
    /\ r.data = "null" \/ (r.data = "object" /\ TotalPage(r).t = "str")

\* C16: when the last response of a finished fetch_all_pages passed the
\* ec == 200 check but was malformed, the call returned (it did not raise) and
\* what it returned is the items of the pages collected so far.
C16_MalformedDegraded ==
    (pc = "done" /\ Malformed(last_resp))
    => (outcome = "returned" /\ all_items = ItemsOf(received))

\* the pages requested so far are 1, 2, 3, ... in this order
Consecutive == \A i \in 1..Len(fetched) : fetched[i] = i

\* what is left to do at most: pages times attempts, 0 once the call has ended
Variant ==
    IF pc = "done" THEN 0
    ELSE (MAX_PAGES + 1 - page) * (MAX_RETRIES + 2)
         + (IF pc = "loop" THEN MAX_RETRIES + 1 ELSE MAX_RETRIES + 1 - attempt)

\* C19: whatever the server answers, fetch_all_pages requests pages 1, 2, 3, ...
\* consecutively, never a page above MAX_PAGES, sends at most
\* MAX_PAGES * MAX_RETRIES POSTs in total, and ends: until it has ended a step
\* is always possible, and every step lowers a natural number.
C19_Terminates ==
    /\ [](Consecutive /\ Len(fetched) <= MAX_PAGES /\ n_posts <= MAX_PAGES * MAX_RETRIES)
    /\ [](Variant \in Nat /\ (pc # "done" => ENABLED NextFetch))
    /\ [][Variant' < Variant]_vars

\* under the fair specification the call does end
FetchEnds == <>(pc = "done")

\* every page was non-empty and declared no total_page, each was answered on
\* its last attempt only, and the call ended at the cap
C19_Witness ==
    /\ pc = "done" /\ outcome = "returned"
    /\ fetched = [i \in 1..MAX_PAGES |-> i]
    /\ n_posts = MAX_PAGES * MAX_RETRIES
    /\ Len(received) = MAX_PAGES
    /\ \A k \in 1..Len(received) : received[k].items # <<>> /\ received[k].total = PyNone

(***************************************************************************)
(* Further properties of SponsorDataProcessor                              *)
(***************************************************************************)

\* the number a time field stands for: 0 when absent or unparseable
NumOf(v) ==
    IF v.t = "int" THEN v.i
    ELSE IF v.t = "str" /\ IntParses(v.s) THEN IntOfStr(v.s)
    ELSE 0

\* the first non-zero value among last_pay_time then create_time, else 0
FirstNonZero(order) ==
    IF NumOf(order.last_pay_time) # 0 THEN NumOf(order.last_pay_time)
    ELSE NumOf(order.create_time)

\* C17: the timestamp of every exported entry is the first non-zero value among
\* its order's last_pay_time then create_time, and 0 only when both are absent,
\* zero or unparseable.
C17_FirstNonZeroTime ==
    \A j \in 1..Len(items) : items[j].timestamp = FirstNonZero(orders[items[j].src])

\* the positions of the profiles an order's user_id matches
Matches(order) ==
    {i \in 1..Len(sponsors) :
        Truthy(sponsors[i].user_id) /\ sponsors[i].user_id = order.user_id}

\* the profile the order is joined with: the last one that matches
Profile(order) ==
    IF Matches(order) = {} THEN [name |-> PyNone, avatar |-> PyNone]
    ELSE LET i == CHOOSE i \in Matches(order) : \A h \in Matches(order) : h <= i
         IN  [name |-> sponsors[i].name, avatar |-> sponsors[i].avatar]

\* the profile's field when non-empty, else the order's when non-empty, else
\* the sentinel
Fallback(profile_field, order_field, sentinel_value) ==
    IF Truthy(profile_field) THEN profile_field
    ELSE IF Truthy(order_field) THEN order_field
    ELSE PyStr(sentinel_value)

\* C18: the name of every exported entry and of every table row is the
\* profile's name when non-empty, else the order's user_name when non-empty,
\* else the sentinel; likewise for the avatar of an entry.
C18_FallbackChain ==
    /\ \A j \in 1..Len(items) :
          LET order == orders[items[j].src]
          IN  /\ items[j].name = Fallback(Profile(order).name, order.user_name, ANONYMOUS)
              /\ items[j].avatar = Fallback(Profile(order).avatar, order.avatar, "")
    /\ \A j \in 1..Len(rows) :
          LET order == orders[rows[j].src]
          IN  rows[j].name = SafeText(Fallback(Profile(order).name, order.user_name, "-"))

\* the avatar alone does follow the chain
AvatarFallbackChain ==
    \A j \in 1..Len(items) :
        LET order == orders[items[j].src]
        IN  items[j].avatar = Fallback(Profile(order).avatar, order.avatar, "")

(***************************************************************************)
(* Properties of main                                                      *)
(***************************************************************************)
InSeq(x, sq) == \E i \in 1..Len(sq) : sq[i] = x

NothingWritten == written = <<>> /\ log = <<>> /\ ~json.exists

\* C12: when the account id or the token is empty, no page is ever requested
\* and neither README.md nor sponsor.json is written.
C12_NoIOWithoutCredentials ==
    (env.user_id = "" \/ env.token = "")
    => (reqs = 0 /\ fetches = <<>> /\ NothingWritten)

\* a run with a token missing has ended
C12_Witness ==
    /\ mpc = "end" /\ env.user_id # "" /\ env.token = ""
    /\ logged = <<"no_credentials">> /\ reqs = 0

\* the order fetch returned an empty list
OrdersEmpty ==
    \E k \in 1..Len(fetches) :
        fetches[k].api = "orders" /\ fetches[k].outcome = "returned" /\ fetches[k].items = <<>>

\* C13: when the order fetch yields an empty list the run stops and nothing
\* is written, whatever the profile fetch returned.
C13_NoOrdersNoWrite ==
    OrdersEmpty => (mpc \in {"check", "end"} /\ NothingWritten)

\* the first page of orders was rejected while the profile fetch had returned
\* a profile, and the run has ended
C13_Witness ==
    /\ mpc = "end" /\ OrdersEmpty /\ InSeq("no_orders", logged)
    /\ m_sponsors # <<>>
    /\ \E k \in 1..Len(fetches) :
          fetches[k].api = "orders" /\ fetches[k].first = DictResp(500, "absent", NoList, PyNone)

\* the profile fetch raised
SponsorsRaised ==
    \E k \in 1..Len(fetches) : fetches[k].api = "sponsors" /\ fetches[k].outcome = "raised"

\* C14: a failed README update is logged and the JSON file is still generated
\* and its write attempted; a profile fetch that raised leaves an empty
\* profile list, is logged, and the run goes on to fetch the orders.
C14_DegradedWrite ==
    /\ InSeq("readme_failed", logged)
          => /\ mpc \in {"json", "end"}
             /\ mpc = "end" => (InSeq("json", written) \/ InSeq("json_failed", logged))
    /\ SponsorsRaised
          => /\ m_sponsors = <<>> /\ InSeq("sponsors_failed", logged)
             /\ mpc = "end" => \E k \in 1..Len(fetches) : fetches[k].api = "orders"

\* the profile fetch raised, the README update failed, sponsor.json was written
C14_Witness ==
    /\ mpc = "end" /\ SponsorsRaised
    /\ logged = <<"sponsors_failed", "readme_failed">>
    /\ written = <<"json">> /\ json.exists


====
